---- MODULE Spec2Model ----
(***************************************************************************)
(* Model of models/oemof/case1_es_charger_limited_BEV_dumb.py: the         *)
(* EnergySystemModel pipeline (time index, time series, network, compile,  *)
(* solve, status check, extraction, dump) and the linear program that the  *)
(* network of create_oemof_objects stands for.                             *)
(*                                                                         *)
(* Units.  Flows are whole kW.  The storage content is kept in hundredths  *)
(* of a kWh, because 45 * 0.95 = 42.75 kWh and a 15 minute step moves a    *)
(* quarter of a kW-hour per kW.  Costs are kept in tenths of a currency    *)
(* unit, because the feed-in credit is -7.9.  The objective is kept as     *)
(* the numerator of a fraction with denominator ObjectiveDen.              *)
(***************************************************************************)
EXTENDS Integers, Sequences, FiniteSets, TLC

VARIABLES
    cfg,            \* the run's inputs: dump_filename, periods, the csv table
    pc,             \* position of the run inside __init__/main/Model
    trace,          \* the stages executed so far, in order
    error,          \* the exception that ended the run, "none" otherwise
    process,        \* "running" or "terminated" (exit() was called)
    caller_obj,     \* TRUE once __init__ has returned the object to its caller
    periods,        \* self.periods (None = -1)
    series,         \* self.BEV_state, PV_load, demand, BEV_consumption, BEV_charging
    es,             \* self.es: the energy system (nodes, flows, storage)
    model,          \* self.model: TRUE once Model(self.es) has been built
    solver,         \* status and termination condition of the last solve
    values,         \* the variable values the solver loaded into the model
    es_results,     \* self.es.results: the keys "main"/"meta" once extracted
    dumps,          \* the artifacts written to the dumps directory
    call,           \* the emobpy helper called and its arguments
    tpc,            \* "idle", "called", "returned" or "raised"
    ret,            \* what the helper returned (or the exception it raised)
    printed,        \* the lines the helper printed, in order
    dirs,           \* the directories that exist
    files           \* the files that exist, by path, with their content

tool_vars == << call, tpc, ret, printed, dirs, files >>

vars == << cfg, pc, trace, error, process, caller_obj, periods, series, es,
           model, solver, values, es_results, dumps, tool_vars >>

None == -1

(***************************************************************************)
(* Bounds of the model.                                                    *)
(***************************************************************************)
\* number of timesteps of the generated runs (the program's 672)
MaxPeriods == 2
\* number of profiles in consumption_profiles
MaxProfiles == 2
\* length of the groups list
MaxGroups == 2

(***************************************************************************)
(* Program constants.                                                      *)
(***************************************************************************)
grid_supply == 30
wallbox_power == 11
PV_variable_costs == 0
\* tenths of a currency unit: 30 and -7.9
CostScale == 10
Grid_variable_costs == 300
Grid_feed_in_costs == -79
nominal_storage_capacity == 45
\* percent: 0.4, 0.95, 0.95
min_storage_level == 40
max_storage_level == 95
initial_storage_level == 95
\* fixed_losses_absolute = BEV_consumption * 4
LossFactor == 4
\* freq = "15min"
freq_minutes == 15
\* nominal_value=1 of the pv and the demand flow
pv_nominal_value == 1
demand_nominal_value == 1
\* the dump switched off
MutDumpSwitchedOff == FALSE

should_dump_results == TRUE

\* the storage levels 0.4 and 0.95 are kept as percent
LevelDen == 100
\* the storage content is kept in 1/ContentScale kWh
ContentScale == LevelDen
\* the objective is ObjectiveNum / ObjectiveDen: costs are tenths, and a step
\* is freq_minutes/60 of an hour
ObjectiveDen == CostScale * (60 \div freq_minutes)

(***************************************************************************)
(* Inputs: the csv table read by get_timeseries and the constructor's      *)
(* dump_filename.  A table maps a column name to its values; a column may  *)
(* be absent or hold fewer than cfg.periods values.                        *)
(***************************************************************************)
Columns == {"BEV_at_home", "PV_kW", "Load_kW", "consumption", "charging_power_kW"}

Const(T, v) == [t \in 1..T |-> v]

Table(home, pv, load, cons, chg) ==
    [c \in Columns |->
        CASE c = "BEV_at_home" -> home
          [] c = "PV_kW" -> pv
          [] c = "Load_kW" -> load
          [] c = "consumption" -> cons
          [] c = "charging_power_kW" -> chg]

\* the electricity side varies, the vehicle is at home and does not drive
ElecTables(T) ==
    { Table(Const(T, 1), pv, Const(T, load), Const(T, 0), Const(T, 0)) :
        pv \in [1..T -> {0, 10}], load \in {5, 40} }

\* the mobility side varies, the grid supply is at its limit
MobTables(T) ==
    { Table(home, Const(T, 10), Const(T, 40), cons, Const(T, wallbox_power)) :
        home \in [1..T -> {0, 1}], cons \in [1..T -> {0, 1, 3}] }

BaseTable(T) == Table(Const(T, 1), Const(T, 10), Const(T, 5), Const(T, 0), Const(T, 0))

\* one column of the base table removed
MissingTables(T) ==
    { [c \in Columns \ {m} |-> BaseTable(T)[c]] : m \in Columns }

\* one column of the base table one value short
ShortTables(T) ==
    { [BaseTable(T) EXCEPT ![m] = SubSeq(@, 1, T - 1)] : m \in Columns }

\* the end-to-end scenario of the specification: T = 4, PV = [0,0,10,10],
\* demand = [5,5,5,5], charger availability all zero
EndToEndPV == <<0, 0, 10, 10>>
EndToEndPeriods == Len(EndToEndPV)
EndToEndTable ==
    Table(Const(EndToEndPeriods, 0), EndToEndPV, Const(EndToEndPeriods, 5),
          Const(EndToEndPeriods, 0), Const(EndToEndPeriods, 0))

\* a trip in the middle of the horizon: the vehicle leaves after the first
\* step, drives 1 kWh while away and is back for the last step
DriveHome == <<1, 0, 1>>
DrivePeriods == Len(DriveHome)
DriveTable ==
    Table(DriveHome, Const(DrivePeriods, 10), Const(DrivePeriods, 40),
          <<0, 1, 0>>, Const(DrivePeriods, wallbox_power))

DumpFilenames == {"case2_es_charger_limited_BEV_dumb"}

Configs ==
    { [dump_filename |-> n, periods |-> MaxPeriods, table |-> tb] :
        n \in DumpFilenames,
        tb \in ElecTables(MaxPeriods) \cup MobTables(MaxPeriods)
               \cup MissingTables(MaxPeriods) \cup ShortTables(MaxPeriods) }
    \cup
    { [dump_filename |-> n, periods |-> EndToEndPeriods, table |-> EndToEndTable] :
        n \in DumpFilenames }
    \cup
    { [dump_filename |-> n, periods |-> DrivePeriods, table |-> DriveTable] :
        n \in DumpFilenames }

\* the values a flow variable of a returned solution is drawn from (kW)
FlowGrid == {0, 4, 5, 8, 10, 12, 30, 40}

(***************************************************************************)
(* State of a fresh object: __init__ sets every field to None and main     *)
(* sets the run parameters before Model() starts.                          *)
(***************************************************************************)
NoSeries == [a \in {} |-> <<>>]
NoEs == [T |-> None, buses |-> {}, flows |-> {}, storages |-> {}]
NoSolver == [status |-> "none", termination |-> "none"]
NoValues == [flow |-> <<>>, storage_content |-> <<>>]
NoResults == [k \in {} |-> NoValues]

\* a python dict is a function on its keys
EmptyDict == [k \in {} |-> 0]

NoCall == [fn |-> "none"]
NoRet == [kind |-> "none", value |-> ""]

\* no emobpy helper is running
ToolsIdle ==
    /\ call = NoCall
    /\ tpc = "idle"
    /\ ret = NoRet
    /\ printed = <<>>
    /\ dirs = {}
    /\ files = EmptyDict

Fresh ==
    /\ pc = "define_time_index"
    /\ trace = <<>>
    /\ error = "none"
    /\ process = "running"
    /\ caller_obj = FALSE
    /\ periods = None
    /\ series = NoSeries
    /\ es = NoEs
    /\ model = FALSE
    /\ solver = NoSolver
    /\ values = NoValues
    /\ es_results = NoResults
    /\ dumps = {}

Init ==
    /\ cfg \in Configs
    /\ Fresh
    /\ ToolsIdle

(***************************************************************************)
(* The network of create_oemof_objects.  A flow is keyed by its two end    *)
(* nodes <<i, o>>, as in oemof.  kind "fix" pins the flow to               *)
(* profile[t] * nominal_value, kind "max" bounds it by that product, kind  *)
(* "free" bounds it by nominal_value, or not at all when that is None.     *)
(***************************************************************************)
Flow(i, o, kind, profile, nominal_value, variable_costs) ==
    [i |-> i, o |-> o, kind |-> kind, profile |-> profile,
     nominal_value |-> nominal_value, variable_costs |-> variable_costs]

Key(f) == << f.i, f.o >>

b_el == "electricity"
b_bev == "mobility"

PvFlow(sr) ==
    Flow("pv", b_el, "fix", sr.PV_load, pv_nominal_value, PV_variable_costs)

\* the wallbox attached to the electricity bus instead
MutWallboxOnElectricity(sr) ==
    Flow("wallbox", b_el, "max", sr.BEV_state, wallbox_power, Grid_variable_costs)

\* the wallbox sized with the grid connection instead of the charger
MutWallboxSizedAsGrid(sr) ==
    Flow("wallbox", b_bev, "max", sr.BEV_state, grid_supply, Grid_variable_costs)

WallboxFlow(sr) ==
    Flow("wallbox", b_bev, "max", sr.BEV_state, wallbox_power, Grid_variable_costs)

GridFlow ==
    Flow("grid-supply", b_el, "free", <<>>, grid_supply, Grid_variable_costs)

\* the excess sink without the feed-in credit
MutExcessWithoutCredit ==
    Flow(b_el, "excess_bel", "free", <<>>, None, 0)

ExcessFlow ==
    Flow(b_el, "excess_bel", "free", <<>>, None, Grid_feed_in_costs)

DemandFlow(sr) ==
    Flow(b_el, "demand", "fix", sr.demand, demand_nominal_value, 0)

\* the storage discharging into the house instead of the mobility bus
MutStorageOutToElectricity == Flow("BEV_Storage", b_el, "free", <<>>, None, 0)

StorageInFlow == Flow(b_bev, "BEV_Storage", "free", <<>>, None, 0)
StorageOutFlow == Flow("BEV_Storage", b_bev, "free", <<>>, None, 0)

\* the consumption series taken as the hourly loss without the factor
MutLossesUnscaled(sr) == sr.BEV_consumption

FixedLossesAbsolute(sr) ==
    [t \in DOMAIN sr.BEV_consumption |-> sr.BEV_consumption[t] * LossFactor]

\* GenericStorage(label="BEV_Storage", ...): balanced is oemof's default
BEV(sr) ==
    [label |-> "BEV_Storage",
     input |-> Key(StorageInFlow),
     output |-> Key(StorageOutFlow),
     nominal_storage_capacity |-> nominal_storage_capacity,
     min_storage_level |-> min_storage_level,
     max_storage_level |-> max_storage_level,
     initial_storage_level |-> initial_storage_level,
     fixed_losses_absolute |-> FixedLossesAbsolute(sr),
     balanced |-> TRUE]

Network(e, sr) ==
    [e EXCEPT
        !.buses = {b_el, b_bev},
        !.flows = {PvFlow(sr), WallboxFlow(sr), GridFlow, ExcessFlow,
                   DemandFlow(sr), StorageInFlow, StorageOutFlow},
        !.storages = {BEV(sr)}]

(***************************************************************************)
(* The linear program Model(self.es) stands for.  One variable per flow    *)
(* and timestep, bounded as the flow says; one balance equation per bus    *)
(* and timestep; per storage a content variable per time point, bounded by *)
(* the min and max level, starting at the initial level, moving by         *)
(* (inflow - outflow - fixed_losses_absolute) * timeincrement per step,    *)
(* and, for a balanced storage, ending where it started.  The objective    *)
(* is the sum of variable_costs * flow * timeincrement.                    *)
(***************************************************************************)
EmptyAssign == [k \in {} |-> 0]

RECURSIVE SumKeys(_, _)
SumKeys(K, a) ==
    IF K = {} THEN 0
    ELSE LET k == CHOOSE x \in K : TRUE IN a[k] + SumKeys(K \ {k}, a)

UpperBoundOk(f, t, v) ==
    CASE f.kind = "max" -> v <= f.profile[t] * f.nominal_value
      [] f.kind = "free" -> f.nominal_value = None \/ v <= f.nominal_value
      [] OTHER -> TRUE

FlowValues(f, t) ==
    IF f.kind = "fix"
    THEN { f.profile[t] * f.nominal_value }
    ELSE { v \in FlowGrid : v >= 0 /\ UpperBoundOk(f, t, v) }

Inflows(e, b) == { Key(f) : f \in { g \in e.flows : g.o = b } }
Outflows(e, b) == { Key(f) : f \in { g \in e.flows : g.i = b } }

BusBalance(e, b, a) == SumKeys(Inflows(e, b), a) = SumKeys(Outflows(e, b), a)

RECURSIVE Product(_, _)
Product(fs, t) ==
    IF fs = {} THEN { EmptyAssign }
    ELSE LET f == CHOOSE x \in fs : TRUE
         IN { (Key(f) :> v) @@ a : v \in FlowValues(f, t), a \in Product(fs \ {f}, t) }

FlowsAt(e, b) == { f \in e.flows : f.i = b \/ f.o = b }

BusSolutions(e, b, t) == { a \in Product(FlowsAt(e, b), t) : BusBalance(e, b, a) }

Agree(a, c) == \A k \in (DOMAIN a) \cap (DOMAIN c) : a[k] = c[k]

RECURSIVE JoinBuses(_, _, _)
JoinBuses(e, B, t) ==
    IF B = {} THEN { EmptyAssign }
    ELSE LET b == CHOOSE x \in B : TRUE
         IN { p[1] @@ p[2] :
                p \in { q \in BusSolutions(e, b, t) \X JoinBuses(e, B \ {b}, t) :
                          Agree(q[1], q[2]) } }

\* the assignments of one timestep that respect every bound and bus balance
StepFeasible(e, t) ==
    LET loose == { f \in e.flows : f.i \notin e.buses /\ f.o \notin e.buses }
    IN { p[1] @@ p[2] : p \in JoinBuses(e, e.buses, t) \X Product(loose, t) }

InitContent(s) ==
    (s.nominal_storage_capacity * s.initial_storage_level * ContentScale) \div LevelDen
MinContent(s) ==
    (s.nominal_storage_capacity * s.min_storage_level * ContentScale) \div LevelDen
MaxContent(s) ==
    (s.nominal_storage_capacity * s.max_storage_level * ContentScale) \div LevelDen

\* storage balance of one step; timeincrement = freq_minutes / 60 hours
NextContent(s, c, a, t) ==
    c + ((a[s.input] - a[s.output] - s.fixed_losses_absolute[t])
            * (ContentScale * freq_minutes)) \div 60

ContentOk(s, c) == MinContent(s) <= c /\ c <= MaxContent(s)

Last(q) == q[Len(q)]

Extended(e, p, a, t) ==
    [flow |-> Append(p.flow, a),
     storage_content |->
        [l \in DOMAIN p.storage_content |->
            LET s == CHOOSE x \in e.storages : x.label = l
            IN Append(p.storage_content[l],
                      NextContent(s, Last(p.storage_content[l]), a, t))]]

RECURSIVE Trajectories(_, _)
Trajectories(e, t) ==
    IF t = 0
    THEN { [flow |-> <<>>,
            storage_content |->
                [l \in { s.label : s \in e.storages } |->
                    << InitContent(CHOOSE x \in e.storages : x.label = l) >>]] }
    ELSE { Extended(e, q[1], q[2], t) :
             q \in { r \in Trajectories(e, t - 1) \X StepFeasible(e, t) :
                       \A s \in e.storages :
                          ContentOk(s, NextContent(s, Last(r[1].storage_content[s.label]),
                                                   r[2], t)) } }

Feasible(e) ==
    { p \in Trajectories(e, e.T) :
        \A s \in e.storages :
            s.balanced => Last(p.storage_content[s.label]) = InitContent(s) }

RECURSIVE StepCost(_, _)
StepCost(fs, a) ==
    IF fs = {} THEN 0
    ELSE LET f == CHOOSE x \in fs : TRUE
         IN f.variable_costs * a[Key(f)] + StepCost(fs \ {f}, a)

RECURSIVE CostUpTo(_, _, _)
CostUpTo(e, p, t) ==
    IF t = 0 THEN 0 ELSE StepCost(e.flows, p.flow[t]) + CostUpTo(e, p, t - 1)

\* numerator of the objective; the denominator is ObjectiveDen
ObjectiveNum(e, p) == CostUpTo(e, p, Len(p.flow))

Optimal(e) ==
    LET F == Feasible(e)
        costs == { ObjectiveNum(e, p) : p \in F }
    IN { p \in F : \A c \in costs : ObjectiveNum(e, p) <= c }

(***************************************************************************)
(* The pipeline: Model() calls the stages in this order.                   *)
(***************************************************************************)
\* the dump called before the extraction
MutDumpBeforeExtract ==
    << "define_time_index", "define_timeseries", "create_oemof_objects",
       "optimise_energysystem", "solve_energysystem", "dump_results",
       "extract_results" >>

ModelSequence ==
    << "define_time_index", "define_timeseries", "create_oemof_objects",
       "optimise_energysystem", "solve_energysystem", "extract_results",
       "dump_results" >>

\* the stage Model() calls after stage s; "done" when Model, main and
\* __init__ return
StageAfter(s) ==
    LET i == CHOOSE j \in 1..Len(ModelSequence) : ModelSequence[j] = s
    IN IF i = Len(ModelSequence) THEN "done" ELSE ModelSequence[i + 1]

\* an exception leaves Model, main and __init__: the caller gets no object
Raise(name) ==
    /\ pc' = "raised"
    /\ error' = name
    /\ UNCHANGED << process, caller_obj >>

Proceed(stage) ==
    /\ pc' = StageAfter(stage)
    /\ caller_obj' = (StageAfter(stage) = "done")
    /\ UNCHANGED << error, process >>

define_time_index ==
    /\ pc = "define_time_index"
    /\ trace' = Append(trace, "define_time_index")
    /\ periods' = cfg.periods
    /\ es' = [NoEs EXCEPT !.T = cfg.periods]
    /\ Proceed("define_time_index")
    /\ UNCHANGED << tool_vars, cfg, series, model, solver, values, es_results, dumps >>

LoadedSeries(tb) ==
    [BEV_state |-> tb["BEV_at_home"],
     PV_load |-> tb["PV_kW"],
     demand |-> tb["Load_kW"],
     BEV_consumption |-> tb["consumption"],
     BEV_charging |-> tb["charging_power_kW"]]

\* df_timeseries[column] raises KeyError for an absent column
define_timeseries ==
    /\ pc = "define_timeseries"
    /\ trace' = Append(trace, "define_timeseries")
    /\ IF Columns \subseteq DOMAIN cfg.table
       THEN /\ series' = LoadedSeries(cfg.table)
            /\ Proceed("define_timeseries")
       ELSE /\ series' = series
            /\ Raise("KeyError")
    /\ UNCHANGED << tool_vars, cfg, periods, es, model, solver, values, es_results, dumps >>

create_oemof_objects ==
    /\ pc = "create_oemof_objects"
    /\ trace' = Append(trace, "create_oemof_objects")
    /\ es' = Network(es, series)
    /\ Proceed("create_oemof_objects")
    /\ UNCHANGED << tool_vars, cfg, periods, series, model, solver, values, es_results, dumps >>

\* Model(self.es) reads every profile at every timestep of the time index
Compilable(e) ==
    /\ \A f \in e.flows : f.kind \in {"fix", "max"} => Len(f.profile) >= e.T
    /\ \A s \in e.storages : Len(s.fixed_losses_absolute) >= e.T

optimise_energysystem ==
    /\ pc = "optimise_energysystem"
    /\ trace' = Append(trace, "optimise_energysystem")
    /\ IF Compilable(es)
       THEN /\ model' = TRUE
            /\ Proceed("optimise_energysystem")
       ELSE /\ model' = model
            /\ Raise("KeyError")
    /\ UNCHANGED << tool_vars, cfg, periods, series, es, solver, values, es_results, dumps >>

SolverStatus == {"ok", "warning", "error", "aborted", "unknown"}
TerminationCondition ==
    {"optimal", "infeasible", "unbounded", "maxTimeLimit", "error"}

\* self.model.solve(...): the solver answers with a status pair, and with an
\* optimal point of the program when it terminates optimal
SolverReturns ==
    /\ pc = "solve_energysystem"
    /\ trace' = Append(trace, "solve_energysystem")
    /\ \E tc \in TerminationCondition :
         \E v \in (IF tc = "optimal" THEN Optimal(es) ELSE { NoValues }) :
           \E st \in SolverStatus :
              /\ solver' = [status |-> st, termination |-> tc]
              /\ values' = v
    /\ pc' = "check_status"
    /\ UNCHANGED << tool_vars, cfg, error, process, caller_obj, periods, series, es, model,
                    es_results, dumps >>

\* the status check joined by "and" instead of "or"
MutSuccessEitherOk(r) == ~ ((r.status /= "ok") /\ (r.termination /= "optimal"))

\* the status check left out
MutSuccessUnchecked(r) == TRUE

Success(r) == ~ ((r.status /= "ok") \/ (r.termination /= "optimal"))

\* the status check of solve_energysystem: RuntimeError, caught, exit()
CheckStatus ==
    /\ pc = "check_status"
    /\ trace' = Append(trace, "check_status")
    /\ IF Success(solver)
       THEN Proceed("solve_energysystem")
       ELSE /\ pc' = "exited"
            /\ error' = "SystemExit"
            /\ process' = "terminated"
            /\ UNCHANGED caller_obj
    /\ UNCHANGED << tool_vars, cfg, periods, series, es, model, solver, values, es_results,
                    dumps >>

extract_results ==
    /\ pc = "extract_results"
    /\ trace' = Append(trace, "extract_results")
    /\ es_results' =
          [main |-> values,
           meta |-> [objective |-> ObjectiveNum(es, values), solver |-> solver]]
    /\ Proceed("extract_results")
    /\ UNCHANGED << tool_vars, cfg, periods, series, es, model, solver, values, dumps >>

\* self.es.dump(dpath, filename) writes the artifact or raises OSError
dump_results ==
    /\ pc = "dump_results"
    /\ trace' = Append(trace, "dump_results")
    /\ \E writable \in BOOLEAN :
         IF should_dump_results /\ ~ writable
         THEN /\ dumps' = dumps
              /\ Raise("OSError")
         ELSE /\ dumps' = IF should_dump_results
                          THEN dumps \cup { [filename |-> cfg.dump_filename,
                                             results |-> es_results] }
                          ELSE dumps
              /\ Proceed("dump_results")
    /\ UNCHANGED << tool_vars, cfg, periods, series, es, model, solver, values, es_results >>

Next ==
    \/ define_time_index
    \/ define_timeseries
    \/ create_oemof_objects
    \/ optimise_energysystem
    \/ SolverReturns
    \/ CheckStatus
    \/ extract_results
    \/ dump_results

Spec == Init /\ [][Next]_vars

(***************************************************************************)
(* The emobpy helpers: models/emobpy/save_profiles.py and create_rules.py. *)
(* A run of this part is one call: the initial state holds the helper and  *)
(* its arguments, the helper's action computes what it returns, prints    *)
(* and writes.  A dict is a function on its keys; where the code iterates  *)
(* over a dict it is the sequence of its <<key, value>> items.             *)
(***************************************************************************)
Put(d, k, v) == (k :> v) @@ d

\* d.get(k, default)
DictGet(d, k, default) == IF k \in DOMAIN d THEN d[k] ELSE default

\* the unpacking in the wrong order: the base rules overwrite the group's
MutBaseWins(base, over) == base @@ over

\* {**base, **over}
Merge(base, over) == over @@ base

Dicts(Keys, Values) == UNION { [K -> Values] : K \in SUBSET Keys }

\* profile records of the emobpy database
ProfileFields == {"kind", "timeseries"}
Payloads == {"ts_a", "ts_b"}
Profiles == Dicts(ProfileFields, Payloads)
ProfileKeys == {"profile1", "profile2", "profile3"}

\* the items of a dict of at most MaxProfiles profiles: keys are distinct
ConsumptionProfiles ==
    UNION { { it \in [1..n -> ProfileKeys \X Profiles] :
                \A i, j \in 1..n : it[i][1] = it[j][1] => i = j } :
            n \in 0..MaxProfiles }

\* the membership test left out
MutAlwaysHasTimeseries(profile) == TRUE

HasTimeseries(profile) == "timeseries" \in DOMAIN profile

\* one pass of the for loop; profile["timeseries"] raises KeyError when the
\* key is absent
LoopBody(st, key, profile) ==
    IF st.error /= "none" THEN st
    ELSE IF HasTimeseries(profile)
         THEN IF "timeseries" \in DOMAIN profile
              THEN [st EXCEPT !.timeseries_data =
                                  Put(@, key, profile["timeseries"])]
              ELSE [st EXCEPT !.error = "KeyError"]
         ELSE [st EXCEPT !.printed = Append(@, <<"warning", key>>)]

RECURSIVE ForItems(_, _)
ForItems(items, st) ==
    IF Len(items) = 0 THEN st
    ELSE ForItems(Tail(items), LoopBody(st, Head(items)[1], Head(items)[2]))

get_timeserie_from_consumption_profiles(consumption_profiles) ==
    LET st == ForItems(consumption_profiles,
                       [timeseries_data |-> EmptyDict, printed |-> <<>>,
                        error |-> "none"])
    IN IF st.error = "none" /\ DOMAIN st.timeseries_data = {}
       THEN [st EXCEPT !.printed = Append(@, <<"error", "no timeseries">>)]
       ELSE st

\* rule dicts of the rules file
RuleKeys == {"n_trip_out", "last_trip_to"}
RuleValues == {"v1", "v2"}
RuleDicts == Dicts(RuleKeys, RuleValues)
DayTypes == {"weekday", "weekend"}
DaySpecs == Dicts(DayTypes, RuleDicts)
Groups == {"commuter", "student"}
\* specifics_rules: no group, or one group with its day types
SpecificsRules == UNION { [G -> DaySpecs] : G \in {{}} \cup { {g} : g \in Groups } }
GroupLists == UNION { [1..n -> Groups] : n \in 0..MaxGroups }
Paths == {"config_files"}

get_rules_for_group(group, specifics_rules, base_day_rules) ==
    LET group_specs == DictGet(specifics_rules, group, EmptyDict)
    IN [weekday |-> Merge(base_day_rules, DictGet(group_specs, "weekday", EmptyDict)),
        weekend |-> Merge(base_day_rules, DictGet(group_specs, "weekend", EmptyDict))]

\* the for loop of create_emobpy_rules_yaml
RECURSIVE RulesOf(_, _, _, _)
RulesOf(groups, specifics_rules, base_day_rules, rules) ==
    IF Len(groups) = 0 THEN rules
    ELSE RulesOf(Tail(groups), specifics_rules, base_day_rules,
                 Put(rules, Head(groups),
                     get_rules_for_group(Head(groups), specifics_rules,
                                         base_day_rules)))

\* os.path.join(path, name)
PathJoin(path, name) == << path, name >>

\* the text written: the comment line, then the JSON document of rules
\* (string keys and string values, which JSON keeps as they are)
RulesFile(rules) ==
    [comment |-> "# YAML-compatible file in JSON style", json |-> rules]

Calls ==
    { [fn |-> "get_timeserie_from_consumption_profiles",
       consumption_profiles |-> cp] : cp \in ConsumptionProfiles }
    \cup
    { [fn |-> "get_rules_for_group", group |-> g, specifics_rules |-> sp,
       base_day_rules |-> b] :
        g \in Groups, sp \in SpecificsRules, b \in RuleDicts }
    \cup
    { [fn |-> "create_emobpy_rules_yaml", path |-> p, groups |-> gs,
       specifics_rules |-> sp, base_day_rules |-> b] :
        p \in Paths, gs \in GroupLists, sp \in SpecificsRules, b \in RuleDicts }

InitEmobpy ==
    /\ cfg \in { c \in Configs : c.table = DriveTable }
    /\ Fresh
    /\ call \in Calls
    /\ tpc = "called"
    /\ ret = NoRet
    /\ printed = <<>>
    /\ dirs \in { {}, Paths }
    /\ files = EmptyDict

pipeline_vars ==
    << cfg, pc, trace, error, process, caller_obj, periods, series, es, model,
       solver, values, es_results, dumps >>

CallGetTimeserie ==
    /\ tpc = "called"
    /\ call.fn = "get_timeserie_from_consumption_profiles"
    /\ LET st == get_timeserie_from_consumption_profiles(call.consumption_profiles)
       IN /\ printed' = st.printed
          /\ IF st.error = "none"
             THEN /\ tpc' = "returned"
                  /\ ret' = [kind |-> "dict", value |-> st.timeseries_data]
             ELSE /\ tpc' = "raised"
                  /\ ret' = [kind |-> "exception", value |-> st.error]
    /\ UNCHANGED << call, dirs, files, pipeline_vars >>

CallGetRulesForGroup ==
    /\ tpc = "called"
    /\ call.fn = "get_rules_for_group"
    /\ tpc' = "returned"
    /\ ret' = [kind |-> "dict",
               value |-> get_rules_for_group(call.group, call.specifics_rules,
                                             call.base_day_rules)]
    /\ UNCHANGED << call, printed, dirs, files, pipeline_vars >>

\* the function ends after its print: it returns None
create_emobpy_rules_yaml ==
    /\ tpc = "called"
    /\ call.fn = "create_emobpy_rules_yaml"
    /\ LET rules == RulesOf(call.groups, call.specifics_rules,
                            call.base_day_rules, EmptyDict)
           filepath == PathJoin(call.path, "rules.yml")
       IN /\ dirs' = dirs \cup { call.path }
          /\ files' = Put(files, filepath, RulesFile(rules))
          /\ printed' = Append(printed, << "saved", filepath >>)
    /\ tpc' = "returned"
    /\ ret' = [kind |-> "None", value |-> ""]
    /\ UNCHANGED << call, pipeline_vars >>

NextEmobpy ==
    \/ CallGetTimeserie
    \/ CallGetRulesForGroup
    \/ create_emobpy_rules_yaml

SpecEmobpy == InitEmobpy /\ [][NextEmobpy]_vars

(***************************************************************************)
(* Vocabulary of the properties.                                           *)
(***************************************************************************)
Executed(stage) == \E i \in DOMAIN trace : trace[i] = stage

\* the status check has run and found a pair other than (ok, optimal)
SolveFailed ==
    /\ Executed("check_status")
    /\ ~ (solver.status = "ok" /\ solver.termination = "optimal")

\* the status check has run and found (ok, optimal)
SolveSucceeded ==
    /\ Executed("check_status")
    /\ solver.status = "ok" /\ solver.termination = "optimal"

\* the energy system holds an extracted Solution
Solved == "main" \in DOMAIN es_results

\* what leaves, and what enters, a component in timestep t of the Solution
FlowOutOf(t, n) ==
    LET a == es_results.main.flow[t]
    IN SumKeys({ k \in DOMAIN a : k[1] = n }, a)
FlowInto(t, n) ==
    LET a == es_results.main.flow[t]
    IN SumKeys({ k \in DOMAIN a : k[2] = n }, a)
pv(t) == FlowOutOf(t, "pv")
grid(t) == FlowOutOf(t, "grid-supply")
excess(t) == FlowInto(t, "excess_bel")
demand(t) == FlowInto(t, "demand")
wallbox(t) == FlowOutOf(t, "wallbox")
storage_in(t) == FlowInto(t, "BEV_Storage")
storage_out(t) == FlowOutOf(t, "BEV_Storage")
\* content before the first step (t = 0) and at the end of step t
level(t) == es_results.main.storage_content["BEV_Storage"][t + 1]

Steps == 1..cfg.periods

\* C1: after the status check, the run goes on exactly when the solver
\* answered (ok, optimal); with any other pair it has ended by exit().
C1_SuccessIffOkAndOptimal ==
    Executed("check_status") =>
        /\ (solver.status = "ok" /\ solver.termination = "optimal")
              <=> (pc \in {"extract_results", "dump_results", "done", "raised"})
        /\ ~ (solver.status = "ok" /\ solver.termination = "optimal")
              <=> (pc = "exited" /\ error = "SystemExit")

C1_Witness ==
    /\ pc = "exited"
    /\ solver.status = "warning"
    /\ solver.termination = "optimal"

\* C2: once the solve stage has failed, neither extract_results nor
\* dump_results has run: es.results has no "main"/"meta" and no artifact
\* carries the run's dump_filename.
C2_NoResultsAfterFailure ==
    SolveFailed =>
        /\ ~ Executed("extract_results")
        /\ ~ Executed("dump_results")
        /\ DOMAIN es_results = {}
        /\ \A d \in dumps : d.filename /= cfg.dump_filename
        /\ pc = "exited"

C2_Witness ==
    /\ pc = "exited"
    /\ solver.termination = "infeasible"
    /\ cfg.table["Load_kW"][1] > grid_supply + cfg.table["PV_kW"][1]

\* C3: the stages run in the order build time index, load series, build
\* network, compile, solve, validate status, extract, persist: what has
\* run so far is always a beginning of that list, each stage once.
StageOrder ==
    << "define_time_index", "define_timeseries", "create_oemof_objects",
       "optimise_energysystem", "solve_energysystem", "check_status",
       "extract_results", "dump_results" >>

C3_FixedStageOrder ==
    /\ Len(trace) <= Len(StageOrder)
    /\ \A i \in DOMAIN trace : trace[i] = StageOrder[i]
    /\ pc \in {"done"} => trace = StageOrder

C3_Witness == pc = "done" /\ trace = StageOrder

\* C4: in a solved Solution both buses balance at every timestep:
\* pv + grid = excess + demand and wallbox + storage_out = storage_in.
C4_BusBalance ==
    Solved =>
        \A t \in Steps :
            /\ pv(t) + grid(t) = excess(t) + demand(t)
            /\ wallbox(t) + storage_out(t) = storage_in(t)

C4_Witness ==
    /\ Solved
    /\ \E t \in Steps : wallbox(t) > 0 /\ storage_out(t) > 0 /\ grid(t) > 0

\* C5 as stated: the level moves by inflow - outflow - fixed_loss per step,
\* fixed_loss being 4 * consumption, from 45 * 0.95 before the first step.
C5_LevelMovesByPowerDifference ==
    Solved =>
        /\ level(0) * LevelDen
              = nominal_storage_capacity * initial_storage_level * ContentScale
        /\ \A t \in Steps :
              level(t) = level(t - 1)
                  + ContentScale * (storage_in(t) - storage_out(t)
                                      - LossFactor * cfg.table["consumption"][t])

\* C5 (amended): the level moves by (inflow - outflow - fixed_loss) times the
\* step length of 15/60 hours, fixed_loss being 4 * consumption, so that a
\* step takes exactly the consumption value out of the storage; the level
\* before the first step is 45 * 0.95.
C5_LevelMovesByEnergyOfStep ==
    Solved =>
        /\ level(0) * LevelDen
              = nominal_storage_capacity * initial_storage_level * ContentScale
        /\ \A t \in Steps :
              60 * (level(t) - level(t - 1))
                  = freq_minutes * ContentScale
                      * (storage_in(t) - storage_out(t)
                            - LossFactor * cfg.table["consumption"][t])

C5_Witness ==
    /\ Solved
    /\ \E t \in Steps : cfg.table["consumption"][t] > 0
    /\ \E t \in Steps : storage_in(t) > storage_out(t)

\* C6: in a solved Solution every flow respects its bound at every timestep
\* (pv and demand equal their series, the wallbox stays within
\* BEV_at_home * wallbox_power, the grid within grid_supply, nothing is
\* negative) and the storage level stays within 40 % and 95 % of capacity.
C6_BoundsRespected ==
    Solved =>
        /\ \A t \in Steps :
              /\ pv(t) = cfg.table["PV_kW"][t] * 1
              /\ demand(t) = cfg.table["Load_kW"][t] * 1
              /\ 0 <= wallbox(t)
              /\ wallbox(t) <= cfg.table["BEV_at_home"][t] * wallbox_power
              /\ 0 <= grid(t) /\ grid(t) <= grid_supply
              /\ 0 <= excess(t) /\ 0 <= storage_in(t) /\ 0 <= storage_out(t)
              /\ 0 <= pv(t) /\ 0 <= demand(t)
        /\ \A t \in 0..cfg.periods :
              /\ level(t) * LevelDen
                    >= nominal_storage_capacity * min_storage_level * ContentScale
              /\ level(t) * LevelDen
                    <= nominal_storage_capacity * max_storage_level * ContentScale

C6_Witness ==
    /\ Solved
    /\ \E t \in Steps : cfg.table["BEV_at_home"][t] = 0 /\ cfg.table["consumption"][t] > 0
    /\ \E t \in Steps : wallbox(t) > 0
    /\ \E t \in Steps : grid(t) = grid_supply

EndToEnd == cfg.periods = EndToEndPeriods /\ cfg.table = EndToEndTable

\* the claimed objective 2*5*grid_price + 2*5*feed_in_credit, in tenths
EndToEndCost == 2 * 5 * Grid_variable_costs + 2 * 5 * Grid_feed_in_costs

EndToEndDispatch ==
    /\ [t \in Steps |-> grid(t)] = <<5, 5, 0, 0>>
    /\ [t \in Steps |-> excess(t)] = <<0, 0, 5, 5>>

\* C7 as stated: in the end-to-end scenario the dispatch is grid = [5,5,0,0],
\* excess = [0,0,5,5] and the objective is 2*5*grid_price + 2*5*feed_in_credit.
C7_EndToEndObjectiveUnweighted ==
    (EndToEnd /\ Solved) =>
        /\ EndToEndDispatch
        /\ es_results.meta.objective * CostScale = EndToEndCost * ObjectiveDen

\* C7 (amended): in the end-to-end scenario the dispatch is grid = [5,5,0,0],
\* excess = [0,0,5,5] and the objective is
\* (2*5*grid_price + 2*5*feed_in_credit) * 15/60, every cost being weighted
\* with the step length of the 15 minute time index.
C7_EndToEndObjectiveWeighted ==
    (EndToEnd /\ Solved) =>
        /\ EndToEndDispatch
        /\ es_results.meta.objective * CostScale * 60
              = EndToEndCost * ObjectiveDen * freq_minutes

C7_Witness == EndToEnd /\ Solved /\ pc = "done"

RequiredSeriesDefect ==
    \E c \in Columns :
        c \notin DOMAIN cfg.table \/ Len(cfg.table[c]) < cfg.periods

\* C8 as stated: with a required series missing or shorter than T the run
\* fails before the network is compiled; nothing is solved, extracted or
\* persisted.
C8_DefectStopsBeforeCompile ==
    RequiredSeriesDefect =>
        /\ ~ model
        /\ ~ Executed("solve_energysystem")
        /\ ~ Executed("extract_results")
        /\ ~ Executed("dump_results")
        /\ pc /= "done"

\* C9 as stated: when the dump fails after a successful solve and
\* extraction, the caller of the pipeline holds the object with the
\* extracted Solution.
C9_SolutionHeldAfterDumpFailure ==
    (pc = "raised" /\ error = "OSError") => (caller_obj /\ Solved)

\* C10 as stated: a solve failure comes back to the caller as an error
\* result and the process keeps running.
C10_SolveFailureReturned ==
    SolveFailed => (process = "running" /\ error /= "SystemExit")

DumpAttempts == Cardinality({ i \in DOMAIN trace : trace[i] = "dump_results" })

\* C11: a run whose solve succeeded goes on to extract_results and
\* dump_results; when it has ended, the results were extracted and the dump
\* was attempted exactly once under dump_filename: either the artifact of
\* that name holds the extracted results, or the attempt raised OSError.
C11_SuccessLeadsToOneDumpAttempt ==
    SolveSucceeded =>
        /\ pc \in {"extract_results", "dump_results", "done", "raised"}
        /\ pc = "extract_results" => ENABLED extract_results
        /\ pc = "dump_results" => (Solved /\ ENABLED dump_results)
        /\ DumpAttempts <= 1
        /\ pc \in {"done", "raised"} => (Solved /\ DumpAttempts = 1)
        /\ pc = "done" =>
              \E d \in dumps :
                  d.filename = cfg.dump_filename /\ d.results = es_results
        /\ pc = "raised" => error = "OSError"

C11_Witness ==
    /\ SolveSucceeded
    /\ pc = "done"
    /\ DumpAttempts = 1
    /\ \E d \in dumps : d.filename = cfg.dump_filename /\ "main" \in DOMAIN d.results

Max(x, y) == IF x >= y THEN x ELSE y

RECURSIVE SumOverSteps(_, _)
SumOverSteps(F(_), t) == IF t = 0 THEN 0 ELSE F(t) + SumOverSteps(F, t - 1)

WallboxCostTerm(t) ==
    Grid_variable_costs * grid(t) + Grid_variable_costs * wallbox(t)
        + Grid_feed_in_costs * excess(t)

C16_AwayLevelDropsByFixedLoss ==
    Solved =>
        /\ \A t \in Steps : storage_in(t) - storage_out(t) = wallbox(t)
        /\ \A t \in Steps \ {1} :
              cfg.table["BEV_at_home"][t] = 0 =>
                  level(t) - level(t - 1)
                      = - ContentScale * LossFactor * cfg.table["consumption"][t]
        /\ \A t \in Steps : level(t) - level(t - 1) <= ContentScale * wallbox_power
        /\ \A t \in Steps : storage_out(t) <= storage_in(t)

\* C16 (amended): the net charge of the storage is the wallbox flow; in a
\* step after the first with the vehicle away the level changes by exactly
\* -fixed_loss * 15/60 h, which is -consumption; the level never rises by
\* more than wallbox_power * 15/60 h in a step; the storage never gives more
\* to the bus than it takes from it.
C16_AwayLevelDropsByConsumption ==
    Solved =>
        /\ \A t \in Steps : storage_in(t) - storage_out(t) = wallbox(t)
        /\ \A t \in Steps \ {1} :
              cfg.table["BEV_at_home"][t] = 0 =>
                  60 * (level(t) - level(t - 1))
                      = - freq_minutes * ContentScale * LossFactor
                            * cfg.table["consumption"][t]
        /\ \A t \in Steps :
              60 * (level(t) - level(t - 1))
                  <= freq_minutes * ContentScale * wallbox_power
        /\ \A t \in Steps : storage_out(t) <= storage_in(t)

C16_Witness ==
    /\ Solved
    /\ \E t \in Steps \ {1} :
          /\ cfg.table["BEV_at_home"][t] = 0
          /\ cfg.table["consumption"][t] > 0
          /\ level(t) < level(t - 1)
    /\ \E t \in Steps : wallbox(t) > 0 /\ level(t) > level(t - 1)

Returned(fn) == call.fn = fn /\ tpc = "returned"

\* the positions of the items of consumption_profiles that carry a timeseries
WithTimeseries(items) ==
    { i \in DOMAIN items : "timeseries" \in DOMAIN items[i][2] }

\* C13: get_timeserie_from_consumption_profiles never raises; it returns a
\* dict whose keys are exactly the input keys whose record has 'timeseries',
\* each with that record's payload unchanged; every record without one is
\* reported by a printed warning and skipped; when no record has one the
\* result is the empty dict.
C13_TimeseriesOfProfilesThatHaveOne ==
    (call.fn = "get_timeserie_from_consumption_profiles" /\ tpc /= "called") =>
        LET items == call.consumption_profiles
        IN /\ tpc = "returned"
           /\ ret.kind = "dict"
           /\ DOMAIN ret.value = { items[i][1] : i \in WithTimeseries(items) }
           /\ \A i \in WithTimeseries(items) :
                 ret.value[items[i][1]] = items[i][2]["timeseries"]
           /\ \A i \in DOMAIN items \ WithTimeseries(items) :
                 \E j \in DOMAIN printed : printed[j] = << "warning", items[i][1] >>
           /\ WithTimeseries(items) = {} => ret.value = EmptyDict

C13_Witness ==
    /\ Returned("get_timeserie_from_consumption_profiles")
    /\ \E i, j \in DOMAIN call.consumption_profiles :
          /\ i \in WithTimeseries(call.consumption_profiles)
          /\ j \notin WithTimeseries(call.consumption_profiles)
          /\ call.consumption_profiles[i][1] \in DOMAIN ret.value
          /\ call.consumption_profiles[j][1] \notin DOMAIN ret.value

\* the group's rules for a day type, the empty dict when the group or the
\* day type is absent
GroupDayRules(day) ==
    IF call.group \in DOMAIN call.specifics_rules
    THEN IF day \in DOMAIN call.specifics_rules[call.group]
         THEN call.specifics_rules[call.group][day]
         ELSE EmptyDict
    ELSE EmptyDict

C14_Merged ==
    (call.fn = "get_rules_for_group" /\ tpc /= "called") =>
        /\ tpc = "returned"
        /\ ret.kind = "dict"
        /\ DOMAIN ret.value = {"weekday", "weekend"}
        /\ \A day \in DayTypes :
              /\ DOMAIN ret.value[day]
                    = DOMAIN call.base_day_rules \cup DOMAIN GroupDayRules(day)
              /\ \A k \in DOMAIN GroupDayRules(day) :
                    ret.value[day][k] = GroupDayRules(day)[k]
              /\ \A k \in DOMAIN call.base_day_rules \ DOMAIN GroupDayRules(day) :
                    ret.value[day][k] = call.base_day_rules[k]
              /\ GroupDayRules(day) = EmptyDict
                    => ret.value[day] = call.base_day_rules

\* C14: get_rules_for_group returns a dict with exactly the keys 'weekday'
\* and 'weekend'; each is base_day_rules updated with the group's rules for
\* that day type: the group's value wins for a key in both, a key only in
\* the base keeps the base value, and with the group or the day type absent
\* the entry equals base_day_rules; the arguments are never changed.
C14_BaseUpdatedWithGroupRules == [] C14_Merged /\ [][call' = call]_vars

C14_Witness ==
    /\ Returned("get_rules_for_group")
    /\ \E day \in DayTypes :
          /\ \E k \in DOMAIN call.base_day_rules \cap DOMAIN GroupDayRules(day) :
                /\ call.base_day_rules[k] /= GroupDayRules(day)[k]
                /\ ret.value[day][k] = GroupDayRules(day)[k]
          /\ \E k \in DOMAIN call.base_day_rules \ DOMAIN GroupDayRules(day) :
                ret.value[day][k] = call.base_day_rules[k]
    /\ \E day \in DayTypes :
          /\ GroupDayRules(day) = EmptyDict
          /\ ret.value[day] = call.base_day_rules

\* the rules file holds one merged entry per group of the groups list
RulesFileWritten ==
    LET filepath == PathJoin(call.path, "rules.yml")
    IN /\ call.path \in dirs
       /\ filepath \in DOMAIN files
       /\ DOMAIN files[filepath].json = { call.groups[i] : i \in DOMAIN call.groups }
       /\ \A i \in DOMAIN call.groups :
             files[filepath].json[call.groups[i]]
                 = get_rules_for_group(call.groups[i], call.specifics_rules,
                                       call.base_day_rules)

\* C15: create_emobpy_rules_yaml creates the destination directory if it is
\* absent, writes rules.yml there with one merged entry per group, and
\* returns the path of that file as a string.
C15_RulesFileWrittenAndPathReturned ==
    Returned("create_emobpy_rules_yaml") =>
        /\ RulesFileWritten
        /\ ret.kind = "str"
        /\ ret.value = PathJoin(call.path, "rules.yml")

====
